---- MODULE Spec2Model ----
(***************************************************************************)
(* Model of sunode's solver orchestration layer:                           *)
(*   src/sunode/solver.py            Solver, AdjointSolver                 *)
(*   src/sunode/wrappers/as_theano.py SolveODEAdjoint,                     *)
(*                                    SolveODEAdjointBackward              *)
(* The SUNDIALS engine (lib.CVode*, external) is a black box: the code it  *)
(* returns from a step request is chosen by the environment, the values it *)
(* produces are a deterministic function of what it was given.  Vectors    *)
(* have one component (n_states = n_params = 1) and are integers modulo    *)
(* Modulus; NaN is a value outside that range.                             *)
(* An action runs the code from one engine step request to the next one    *)
(* (or to the return / raise of the top-level call).                       *)
(***************************************************************************)
EXTENDS Integers, Sequences, FiniteSets, TLC

\* ------------------------------------------------------------ bounds
MaxT == 2            \* output times are drawn from 0..MaxT
Modulus == 3         \* component values are 0..Modulus-1
MaxRetries == 2      \* max_retries arguments are drawn from 0..MaxRetries
MaxCalls == 2        \* top-level calls made on the instance in one behaviour

\* ------------------------------------------------- program constants
NaN == -9                 \* np.nan
CV_SUCCESS == 0           \* the success code compared with in "retval != 0"
TOO_MUCH_WORK == -1       \* lib.CV_TOO_MUCH_WORK
FatalCodes == {-4}        \* another member of ERRORS (CV_CONV_FAILURE)
RetCodes == {CV_SUCCESS, TOO_MUCH_WORK} \cup FatalCodes
None == -2                \* Python's None where a value or an array is optional

Vals == 0 .. (Modulus - 1)
Times == 0 .. MaxT
ParamSets == {<<1, 0>>, <<2, 1>>}     \* (differentiable subset, remainder)

IsIncreasing(g) == \A a \in 1 .. Len(g) : \A b \in 1 .. Len(g) : a < b => g[a] < g[b]
Grids == {g \in UNION {[1 .. n -> Times] : n \in 1 .. (MaxT + 1)} : IsIncreasing(g)}

Reverse(s) == [a \in 1 .. Len(s) |-> s[Len(s) + 1 - a]]
Mod(x) == x % Modulus
Min(a, b) == IF a < b THEN a ELSE b

VARIABLES
    cls,            \* class of the solver instance under test
    compute_sens,   \* Solver._compute_sens
    t0,             \* the initial time the callers use (SolveODEAdjoint._t0)
    tvals,          \* the output times the callers use (SolveODEAdjoint._tvals)
    solver,         \* fields of the solver instance and the engine it owns
    bufs,           \* output buffers, per owner (direct caller, the two ops)
    frame,          \* the running (or last finished) top-level call
    outputs,        \* arrays the last perform stored in outputs[..][0]
    twin,           \* the same call on a freshly constructed instance
    calls,          \* number of top-level calls started so far
    life            \* construction and destruction of a solver instance

vars == <<cls, compute_sens, t0, tvals, solver, bufs, frame, outputs, twin, calls, life>>

\* ------------------------------------------------------------ errors
NoErr == [cls |-> "none", msg |-> "none", code |-> 0, t_upper |-> 0, t_lower |-> 0]

\* raise SolverError("Bad sundials return code while solving ode: %s (%s)")
BadReturnCode(retval) ==
    [cls |-> "SolverError", msg |-> "Bad sundials return code while solving ode",
     code |-> retval, t_upper |-> 0, t_lower |-> 0]

\* raise SolverError(f"Solving ode failed between time {t_upper} and {t_lower}: ...")
SolveFailedBetween(t_upper, t_lower, retval) ==
    [cls |-> "SolverError", msg |-> "Solving ode failed between time",
     code |-> retval, t_upper |-> t_upper, t_lower |-> t_lower]

\* raise SolverError(f"Too many solver retries between time {t_upper} and {t_lower}.")
TooManyRetries(t_upper, t_lower) ==
    [cls |-> "SolverError", msg |-> "Too many solver retries between time",
     code |-> 0, t_upper |-> t_upper, t_lower |-> t_lower]

\* raise ValueError('"sens_out" and "sens0" are required when computin sensitivities.')
SensRequired ==
    [cls |-> "ValueError", msg |-> "sens_out and sens0 are required",
     code |-> 0, t_upper |-> 0, t_lower |-> 0]

\* ------------------------------------------------ the engine (lib.*)
\* What the engine computes is a fixed function of what it holds; these
\* stand for the flows of the state, sensitivity, adjoint and quadrature
\* equations over a step of length dt under parameters p.
Flow(y, p, dt) == Mod(y + (p[1] + p[2]) * dt)
SensFlow(yS, p, dt) == Mod(yS + dt)
AdjFlow(yB, p, ck, dt) == Mod(yB * (1 + (p[1] + ck.y0) * dt))
QuadFlow(qB, yB, p, ck, dt) == Mod(qB + yB * dt)

\* no checkpoints; made records in which top-level call the pass started
NoCheckpoints == [has |-> FALSE, t0 |-> 0, tend |-> 0, y0 |-> 0, p |-> <<0, 0>>, made |-> 0]

\* lib.CVodeReInit(ode, t0, state_c_ptr): the engine restarts at t0 from the buffer
CVodeReInit(e, t, y) == [e EXCEPT !.t = t, !.y = y]

\* lib.CVodeSensReInit(ode, sens_mode, sens_buffer_array)
CVodeSensReInit(e, yS) == [e EXCEPT !.yS = yS]

\* a variant that keeps the checkpoints the engine holds
CVodeAdjReInit_keeping(e) == e

\* lib.CVodeAdjReInit(ode): the checkpoints of the previous forward pass are dropped
CVodeAdjReInit(e) == [e EXCEPT !.ck = NoCheckpoints]

\* lib.CVode(ode, t, state_c_ptr, time_p, CV_NORMAL) returning retval
CVode(e, p, tout, retval) ==
    IF retval = CV_SUCCESS
    THEN [e EXCEPT !.t = tout,
                   !.y = Flow(e.y, p, tout - e.t),
                   !.yS = SensFlow(e.yS, p, tout - e.t)]
    ELSE e

\* lib.CVodeF(ode, t, state_c_ptr, time_p, CV_NORMAL, n_check) returning retval:
\* as CVode, and the engine stores checkpoints of the pass
CVodeF(e, p, tout, retval) ==
    LET ck0 == IF e.ck.has THEN e.ck
               ELSE [has |-> TRUE, t0 |-> e.t, tend |-> e.t, y0 |-> e.y, p |-> p,
                     made |-> calls]
        e1 == CVode(e, p, tout, retval)
    IN  [e1 EXCEPT !.ck = [ck0 EXCEPT !.tend = e1.t]]

\* lib.CVodeReInitB(ode, odeB, t_upper, state_c_ptr)
CVodeReInitB(eB, t_upper, yB) == [eB EXCEPT !.t = t_upper, !.yB = yB]

\* lib.CVodeQuadReInitB(ode, odeB, quad_c_ptr)
CVodeQuadReInitB(eB, qB) == [eB EXCEPT !.qB = qB]

\* lib.CVodeB(ode, t_lower, CV_NORMAL) returning retval
CVodeB(eB, p, ck, t_lower, retval) ==
    IF retval = CV_SUCCESS
    THEN [eB EXCEPT !.t = t_lower,
                    !.yB = AdjFlow(eB.yB, p, ck, eB.t - t_lower),
                    !.qB = QuadFlow(eB.qB, eB.yB, p, ck, eB.t - t_lower)]
    ELSE eB

\* ------------------------------------------------ construction
\* sunode.empty_vector allocates without initialising: junk is what the
\* memory happens to hold.
\* Solver.__init__ / AdjointSolver.__init__ (with _init_backward)
Construct(c, user_data, junkB, junkQ, junkQout) ==
    [user_data       |-> user_data,
     state_buffer    |-> 0,
     sens_buffers    |-> 0,
     state_bufferB   |-> IF c = "AdjointSolver" THEN junkB ELSE 0,
     quad_buffer     |-> IF c = "AdjointSolver" THEN junkQ ELSE 0,
     quad_buffer_out |-> IF c = "AdjointSolver" THEN junkQout ELSE 0,
     ode  |-> [t |-> 0, y |-> 0, yS |-> 0, ck |-> NoCheckpoints],
     odeB |-> [t |-> 0,
               yB |-> IF c = "AdjointSolver" THEN junkB ELSE 0,
               qB |-> IF c = "AdjointSolver" THEN junkQ ELSE 0]]

\* make_output_buffers(tvals): np.zeros of the right shapes
make_output_buffers(tv) ==
    [y_out     |-> [k \in 1 .. Len(tv) |-> 0],
     sens_out  |-> [k \in 1 .. Len(tv) |-> 0],
     grad_out  |-> 0,
     lamda_out |-> 0]

Callers == {"Solver.solve", "AdjointSolver.solve_forward", "AdjointSolver.solve_backward",
            "SolveODEAdjoint.perform", "SolveODEAdjointBackward.perform"}

\* whose buffers a call writes: the ops own theirs, a direct caller passes its own
Owner(caller) ==
    IF caller \in {"SolveODEAdjoint.perform", "SolveODEAdjointBackward.perform"}
    THEN caller ELSE "caller"

IdleFrame ==
    [pc |-> "idle", caller |-> "none", y0 |-> 0, sens0 |-> None, grads |-> <<>>,
     max_retries |-> 0, i |-> 0, retry |-> 0, retval |-> 0,
     err |-> NoErr, ret |-> "none",
     req |-> <<"none", 0, 0, 0, 0>>, \* the last step request: engine call, index, target,
                                    \* code, and how often it was reissued so far (mod 2)
     blog |-> <<>>,                 \* what solve_backward did, in order
     lamda_all_out |-> <<>>,        \* the optional per-time buffers of solve_backward,
     quad_all_out |-> <<>>,         \* <<>> when the caller passes None
     pre |-> make_output_buffers(<<>>)]  \* the call's buffers as they were when it started

\* the frame of a call that starts: locals unset, nothing logged
NewFrame(caller, y0, sens0, grads, max_retries) ==
    [IdleFrame EXCEPT !.pc = "running", !.caller = caller, !.y0 = y0, !.sens0 = sens0,
                      !.grads = grads, !.max_retries = max_retries]

\* a machine is the instance, the buffers the running call was given, its
\* frame and the arrays perform handed out: m = [s, b, f, o]
Raise(m, e) == [m EXCEPT !.f.pc = "raised", !.f.err = e]
Return(m) == [m EXCEPT !.f.pc = "returned"]

\* a variant that leaves the state buffer as the previous solve left it
set_state_stale(s, y0) == s

\* "state_data[:] = y0"
set_state(s, y0) == [s EXCEPT !.state_buffer = y0]

\* "for i in range(n_params): sens_data[i][:] = sens0[i, :]" when compute_sens
set_sens(s, sens0) == IF compute_sens THEN [s EXCEPT !.sens_buffers = sens0] ELSE s

\* the record of a step request that returned retval: a request that is
\* reissued counts its reissues (modulo 2), any other one starts at 0
Request(f, name, k, t, retval) ==
    <<name, k, t, retval,
      IF retval = TOO_MUCH_WORK /\ f.req[1] = name /\ f.req[2] = k
         /\ f.req[4] = TOO_MUCH_WORK
      THEN (f.req[5] + 1) % 2 ELSE 0>>

\* ------------------------------------------------ Solver.solve
\* a variant that takes every code but success for fatal
IsFatal_not_success(retval) == retval # 0

\* "retval != TOO_MUCH_WORK and retval != 0": the step result is fatal
IsFatal(retval) == retval # TOO_MUCH_WORK /\ retval # CV_SUCCESS

\* "while retval == TOO_MUCH_WORK": the same request is issued again
IsRetry(retval) == retval = TOO_MUCH_WORK

\* a variant that steps to every output time
AtInitialTime_never(t) == FALSE

\* "if t == t0": the output time is the initial time (also in solve_forward)
AtInitialTime(t) == t = t0

RECURSIVE Solver_for(_, _)
\* the for loop of Solver.solve from index k (1-based) up to the next
\* step request or the end of tvals
Solver_for(m, k) ==
    IF k > Len(tvals) THEN Return(m)
    ELSE IF AtInitialTime(tvals[k])
    THEN Solver_for([m EXCEPT !.b.y_out[1] = m.f.y0,
                              !.b.sens_out[1] =
                                  IF compute_sens THEN m.f.sens0 ELSE @], k + 1)
    ELSE [m EXCEPT !.f.pc = "solve_step", !.f.i = k, !.f.retval = TOO_MUCH_WORK]

\* Solver.solve up to its first step request
Solver_solve(m) ==
    IF compute_sens /\ m.f.sens0 = None THEN Raise(m, SensRequired)
    ELSE LET s1 == set_state(set_sens(m.s, m.f.sens0), m.f.y0)
             e1 == CVodeReInit(s1.ode, t0, s1.state_buffer)
             e2 == IF compute_sens THEN CVodeSensReInit(e1, s1.sens_buffers) ELSE e1
         IN  Solver_for([m EXCEPT !.s = [s1 EXCEPT !.ode = e2]], 1)

\* one pass of the while loop of Solver.solve: CVode returned retval
Solver_step(m, retval) ==
    LET k == m.f.i
        e1 == CVode(m.s.ode, m.s.user_data, tvals[k], retval)
        m1 == [m EXCEPT !.s.ode = e1, !.s.state_buffer = e1.y, !.f.retval = retval,
                        !.f.req = Request(m.f, "CVode", k, tvals[k], retval)]
    IN  IF IsFatal(retval) THEN Raise(m1, BadReturnCode(retval))
        ELSE IF IsRetry(retval) THEN m1
        ELSE Solver_for(
                 [m1 EXCEPT !.b.y_out[k] = m1.s.state_buffer,
                            !.s.sens_buffers = IF compute_sens THEN e1.yS ELSE @,
                            !.b.sens_out[k] = IF compute_sens THEN e1.yS ELSE @],
                 k + 1)

\* ------------------------------------------------ AdjointSolver.solve_forward
RECURSIVE solve_forward_for(_, _)
\* the for loop of solve_forward from index k
solve_forward_for(m, k) ==
    IF k > Len(tvals) THEN Return(m)
    ELSE IF AtInitialTime(tvals[k])
    THEN solve_forward_for([m EXCEPT !.b.y_out[1] = m.f.y0], k + 1)
    ELSE [m EXCEPT !.f.pc = "fwd_step", !.f.i = k, !.f.retval = TOO_MUCH_WORK]

\* solve_forward up to its first step request
solve_forward(m) ==
    LET s1 == set_state(m.s, m.f.y0)
        e1 == CVodeAdjReInit(CVodeReInit(s1.ode, t0, s1.state_buffer))
    IN  solve_forward_for([m EXCEPT !.s = [s1 EXCEPT !.ode = e1]], 1)

\* one pass of the while loop of solve_forward: CVodeF returned retval
solve_forward_step(m, retval) ==
    LET k == m.f.i
        e1 == CVodeF(m.s.ode, m.s.user_data, tvals[k], retval)
        m1 == [m EXCEPT !.s.ode = e1, !.s.state_buffer = e1.y, !.f.retval = retval,
                        !.f.req = Request(m.f, "CVodeF", k, tvals[k], retval)]
    IN  IF IsFatal(retval) THEN Raise(m1, BadReturnCode(retval))
        ELSE IF IsRetry(retval) THEN m1
        ELSE solve_forward_for([m1 EXCEPT !.b.y_out[k] = m1.s.state_buffer], k + 1)

\* ------------------------------------------------ AdjointSolver.solve_backward
\* "ts = [t0] + list(tvals[::-1]) + [tend]" (here t0 names the upper end)
Ts_unreversed(t0_, tend) == <<t0_>> \o tvals \o <<tend>>

\* "ts = [t0] + list(tvals[::-1]) + [tend]"
Ts(t0_, tend) == <<t0_>> \o Reverse(tvals) \o <<tend>>

\* "t_intervals = zip(ts[1:], ts[:-1])": pairs (t_lower, t_upper)
TIntervals(t0_, tend) ==
    LET ts == Ts(t0_, tend) IN [j \in 1 .. (Len(ts) - 1) |-> <<ts[j + 1], ts[j]>>]

\* a variant that leaves the padded list in the caller's order
GradsReversed_unreversed(grads) == <<None>> \o grads

\* "reversed([None] + list(grads))"
GradsReversed(grads) == Reverse(<<None>> \o grads)

\* what "zip(t_intervals, reversed(grads))" yields: as many as the shorter one
NumIntervals(t0_, tend, grads) ==
    Min(Len(TIntervals(t0_, tend)), Len(GradsReversed(grads)))

\* the ends solve_backward gets from its callers: upper end tvals[-1], lower end t0
UpperEnd == tvals[Len(tvals)]
LowerEnd == t0

\* a variant that zeroes the quadrature buffers only
zero_backward_quad_only(s) == [s EXCEPT !.quad_buffer = 0, !.quad_buffer_out = 0]

\* a variant that zeroes the adjoint state only
zero_backward_state_only(s) == [s EXCEPT !.state_bufferB = 0]

\* "state_data[:] = 0; quad_data[:] = 0; quad_out_data[:] = 0"
zero_backward(s) ==
    [s EXCEPT !.state_bufferB = 0, !.quad_buffer = 0, !.quad_buffer_out = 0]

\* Python's a[-i] on an array of n rows, as a row number from 1: -0 is 0, the
\* first row; -i for i > 0 counts from the end
NegIndex(i, n) == IF i = 0 THEN 1 ELSE n - i + 1

\* a variant that writes the running values to lamda_out and grad_out after
\* each injection
snapshot_into_results(m, j) ==
    [m EXCEPT !.b.lamda_out = m.s.state_bufferB, !.b.grad_out = m.s.quad_buffer]

\* "if lamda_all_out is not None: lamda_all_out[-i, :] = state_data;
\*  if quad_all_out is not None: quad_all_out[-i, :] = quad_data" (i is j - 1)
snapshot(m, j) ==
    [m EXCEPT !.f.lamda_all_out =
                  IF @ # <<>> THEN [@ EXCEPT ![NegIndex(j - 1, Len(@))] = m.s.state_bufferB]
                  ELSE @,
              !.f.quad_all_out =
                  IF @ # <<>> THEN [@ EXCEPT ![NegIndex(j - 1, Len(@))] = m.s.quad_buffer]
                  ELSE @]

\* a variant that adds the gradient instead of subtracting it
inject_adding(m, j) ==
    LET grad == Reverse(<<None>> \o m.f.grads)[j]
    IN  IF grad # None
        THEN LET m1 == [m EXCEPT !.s.state_bufferB = Mod(@ + grad)]
             IN  snapshot([m1 EXCEPT !.f.blog = Append(@, <<"inject", j - 1, grad,
                                                            m1.s.state_bufferB,
                                                            m1.s.quad_buffer>>)], j)
        ELSE m

\* "if grad is not None: state_data[:] -= grad" of iteration j (Python's i is j - 1)
inject(m, j) ==
    LET grad == GradsReversed(m.f.grads)[j]
    IN  IF grad # None
        THEN LET m1 == [m EXCEPT !.s.state_bufferB = Mod(@ - grad)]
             IN  snapshot([m1 EXCEPT !.f.blog = Append(@, <<"inject", j - 1, grad,
                                                            m1.s.state_bufferB,
                                                            m1.s.quad_buffer>>)], j)
        ELSE m

\* a variant that allows one attempt more than max_retries
BudgetLeft_one_more(retry, max_retries) == retry <= max_retries

\* "for retry in range(max_retries)": attempt number retry (from 0) is made
\* while retry < max_retries; otherwise the loop ends without a break and its
\* else clause raises
BudgetLeft(retry, max_retries) == retry < max_retries

\* a variant that steps in every sub-interval
NonDegenerate_always(t_lower, t_upper) == TRUE

\* "if t_lower < t_upper": the sub-interval is stepped through
NonDegenerate(t_lower, t_upper) == t_lower < t_upper

\* a variant that leaves grad_out as the caller passed it
copy_out_lamda_only(m) == [m EXCEPT !.b.lamda_out = m.s.state_bufferB]

\* "grad_out[:] = quad_out_data; lamda_out[:] = state_data"
copy_out(m) ==
    [m EXCEPT !.b.grad_out = m.s.quad_buffer_out, !.b.lamda_out = m.s.state_bufferB]

\* a variant in which the count of the previous sub-interval is carried on
RetryStart_carried(f) == f.retry

\* "for retry in range(max_retries)": the count a sub-interval starts with
RetryStart(f) == 0

RECURSIVE solve_backward_for(_, _)
\* the for loop of solve_backward from iteration j up to the next step request,
\* the raise of an empty retry loop, or the end with the two final copies
solve_backward_for(m, j) ==
    IF j > NumIntervals(UpperEnd, LowerEnd, m.f.grads)
    THEN Return(copy_out(m))
    ELSE LET t_lower == TIntervals(UpperEnd, LowerEnd)[j][1]
             t_upper == TIntervals(UpperEnd, LowerEnd)[j][2]
         IN  IF NonDegenerate(t_lower, t_upper)
             THEN LET eB == CVodeQuadReInitB(
                                CVodeReInitB(m.s.odeB, t_upper, m.s.state_bufferB),
                                m.s.quad_buffer)
                      m1 == [m EXCEPT !.s.odeB = eB, !.f.i = j,
                                      !.f.retry = RetryStart(m.f),
                                      !.f.blog = Append(@, <<"CVodeReInitB", t_upper,
                                                             eB.yB, eB.qB>>)]
                  IN  IF BudgetLeft(m1.f.retry, m.f.max_retries)
                      THEN [m1 EXCEPT !.f.pc = "bwd_step"]
                      ELSE Raise(m1, TooManyRetries(t_upper, t_lower))
             ELSE solve_backward_for(inject(m, j), j + 1)

\* solve_backward up to its first step request
solve_backward(m) == solve_backward_for([m EXCEPT !.s = zero_backward(m.s)], 1)

\* a variant that reads the quadrature back without making it the running value
read_back_quad_out_only(s, eB) ==
    [s EXCEPT !.state_bufferB = eB.yB, !.quad_buffer_out = eB.qB]

\* "CVodeGetB(ode, odeB, time_p, state_c_ptr); CVodeGetQuadB(ode, odeB, time_p,
\* quad_out_c_ptr); quad_data[:] = quad_out_data[:]"
read_back(s, eB) ==
    [s EXCEPT !.state_bufferB = eB.yB, !.quad_buffer_out = eB.qB, !.quad_buffer = eB.qB]

\* one pass of the retry loop of solve_backward: CVodeB returned retval
solve_backward_step(m, retval) ==
    LET j == m.f.i
        t_lower == TIntervals(UpperEnd, LowerEnd)[j][1]
        t_upper == TIntervals(UpperEnd, LowerEnd)[j][2]
        eB == CVodeB(m.s.odeB, m.s.user_data, m.s.ode.ck, t_lower, retval)
        m1 == [m EXCEPT !.s.odeB = eB, !.f.retval = retval,
                        !.f.req = Request(m.f, "CVodeB", j, t_lower, retval),
                        !.f.blog = Append(@, <<"CVodeB", t_lower, retval>>)]
    IN  IF retval = CV_SUCCESS
        THEN \* break; CVodeGetB, CVodeGetQuadB, quad_data[:] = quad_out_data[:]
             LET m2 == [m1 EXCEPT !.s = read_back(m1.s, eB),
                                  !.f.blog = Append(@, <<"CVodeGetB", eB.t, eB.yB, eB.qB>>)]
             IN  solve_backward_for(inject(m2, j), j + 1)
        ELSE IF retval # TOO_MUCH_WORK
        THEN Raise(m1, SolveFailedBetween(t_upper, t_lower, retval))
        ELSE IF BudgetLeft(m.f.retry + 1, m.f.max_retries)
        THEN [m1 EXCEPT !.f.retry = @ + 1]
        ELSE Raise(m1, TooManyRetries(t_upper, t_lower))

\* ------------------------------------------------ the theano ops
\* a variant that hands out the op's buffer itself
ndarray_view(owner, field, a) ==
    [own |-> FALSE, owner |-> owner, field |-> field, val |-> a]

\* "self._y_out.copy()": a new array with storage of its own that holds what
\* the buffer "field" of the op "owner" holds now; val is its contents when
\* it was made
ndarray_copy(owner, field, a) ==
    [own |-> TRUE, owner |-> owner, field |-> field, val |-> a]

\* the output storage cells of an op before its first perform: no array yet;
\* returned lists, per output, the arrays the performs have handed out
NoOutputs ==
    [y |-> <<>>, lamda |-> None, grad |-> None,
     returned |-> [y |-> <<>>, lamda |-> <<>>, grad |-> <<>>]]

\* the value semantics of a finished top-level call: it returned or it raised
Finish(m) == [m EXCEPT !.f.pc = "idle", !.f.ret = m.f.pc]

\* "self._solver.set_derivative_params(...); self._solver.set_remaining_params(...)"
\* (Problem.update_subset_params / update_remaining_params on _user_data)
set_derivative_params(s, v) == [s EXCEPT !.user_data[1] = v]
set_remaining_params(s, v) == [s EXCEPT !.user_data[2] = v]

\* "self._problem.update_params(self._user_data, params)": all of them at once
set_params(s, P) == [s EXCEPT !.user_data = P]

\* a variant in which the exhausted retry budget is an error of its own class
Caught_fatal_only(e) ==
    e.cls = "SolverError" /\ e.msg # "Too many solver retries between time"

\* "except SolverError as e": the handler of the ops catches this class only
Caught(e) == e.cls = "SolverError"

\* SolveODEAdjoint.perform from the return (or raise) of solve_forward on
SolveODEAdjoint_tail(m) ==
    LET m1 == IF m.f.pc = "raised" /\ Caught(m.f.err)
              THEN [m EXCEPT !.f.pc = "returned",
                             !.b.y_out = [k \in DOMAIN m.b.y_out |-> NaN]]
              ELSE m
    IN  Finish(IF m1.f.pc = "returned"
               THEN [m1 EXCEPT !.o.y = m1.b.y_out,
                               !.o.returned.y =
                                   Append(@, ndarray_copy("SolveODEAdjoint.perform",
                                                          "y_out", m1.b.y_out))]
               ELSE m1)

\* a variant whose handler poisons lamda_out and forgets grad_out
SolveODEAdjointBackward_tail_partial(m) ==
    LET m1 == IF m.f.pc = "raised" /\ m.f.err.cls = "SolverError"
              THEN [m EXCEPT !.f.pc = "returned", !.b.lamda_out = NaN]
              ELSE m
    IN  [m1 EXCEPT !.f.pc = "idle", !.f.ret = m1.f.pc,
                   !.o.lamda = IF m1.f.pc = "returned" THEN m1.b.lamda_out ELSE @,
                   !.o.grad = IF m1.f.pc = "returned" THEN m1.b.grad_out ELSE @]

\* SolveODEAdjointBackward.perform from the end of its try block on
SolveODEAdjointBackward_tail(m) ==
    LET m1 == IF m.f.pc = "raised" /\ Caught(m.f.err)
              THEN [m EXCEPT !.f.pc = "returned",
                             !.b.lamda_out = NaN, !.b.grad_out = NaN]
              ELSE m
    IN  Finish(IF m1.f.pc = "returned"
               THEN [m1 EXCEPT !.o.lamda = m1.b.lamda_out, !.o.grad = m1.b.grad_out,
                               !.o.returned.lamda =
                                   Append(@, ndarray_copy("SolveODEAdjointBackward.perform",
                                                          "lamda_out", m1.b.lamda_out)),
                               !.o.returned.grad =
                                   Append(@, ndarray_copy("SolveODEAdjointBackward.perform",
                                                          "grad_out", m1.b.grad_out))]
               ELSE m1)

Suspended(m) == m.f.pc \in {"solve_step", "fwd_step", "bwd_step"}

\* where control goes when solve_backward returned or raised
AfterBackward(m) ==
    IF Suspended(m) THEN m
    ELSE IF m.f.caller = "SolveODEAdjointBackward.perform"
    THEN SolveODEAdjointBackward_tail(m)
    ELSE Finish(m)

\* a variant whose handler swallows the error of solve_forward and goes on
ProceedsToBackward_always(m) == TRUE

\* the try block of SolveODEAdjointBackward.perform: solve_backward is called
\* when solve_forward returned, and skipped when it raised
ProceedsToBackward(m) == m.f.pc = "returned"

\* where control goes when solve_forward returned or raised
AfterForward(m) ==
    IF Suspended(m) THEN m
    ELSE IF m.f.caller = "SolveODEAdjoint.perform" THEN SolveODEAdjoint_tail(m)
    ELSE IF m.f.caller = "SolveODEAdjointBackward.perform"
    THEN IF ProceedsToBackward(m)
         THEN AfterBackward(solve_backward([m EXCEPT !.f.pc = "running"]))
         ELSE SolveODEAdjointBackward_tail(m)
    ELSE Finish(m)

\* a variant of the negation that keeps the sign
Neg_same_sign(x) == x

\* the unary minus of "-lamda": NaN stays NaN
Neg(x) == IF x = NaN THEN NaN ELSE Mod(0 - x)

\* what the list SolveODEAdjoint.grad returns evaluates to, once the backward
\* op it applies has performed: [-lamda, gradient] (the third entry is
\* grad_not_implemented)
SolveODEAdjoint_grad == <<Neg(outputs.lamda), outputs.grad>>

\* ------------------------------------------------ construction and destruction
\* np.array(tol).ndim of a tolerance argument: 0, 1 or more
TolKinds == {"scalar", "vector", "matrix"}
\* the sens_mode argument; "none" is the default None
SensModes == {"simultaneous", "staggered", "staggered1", "none"}
\* where a call into the engine or the problem definition raises, if any does:
\* while allocating, in CVodeCreate itself, or in the first call after it
Failures == {"none", "alloc", "create", "after_create"}

\* no instance yet
Unborn ==
    [pc |-> "unborn", cls |-> "none", abstol |-> "scalar", reltol |-> "scalar",
     compute_sens |-> FALSE, sens_mode |-> "none", kind |-> "none",
     handle |-> "none",       \* the CVodeCreate handle: none, live, freed
     frees |-> 0,             \* calls of lib.CVodeFree on it
     finalizer |-> FALSE,     \* weakref.finalize registered
     buffers |-> "none",      \* vectors and matrices handed to the engine
     sens_mode_set |-> FALSE, sens_buffers |-> FALSE, sens_init |-> FALSE,
     backward |-> FALSE,      \* CVodeAdjInit / CVodeCreateB done
     err |-> "none", log |-> <<>>]

Fail(l, e) == [l EXCEPT !.pc = "failed", !.err = e]

\* lib.CVodeCreate under check / check_ptr: NULL raises
CVodeCreate(l, fail) ==
    IF l.pc # "running" THEN l
    ELSE IF fail = "create" THEN Fail(l, "engine")
    ELSE [l EXCEPT !.handle = "live", !.log = Append(@, "CVodeCreate")]

\* the buffers a constructor allocates before it creates the engine
Allocate(l, fail) ==
    IF l.pc # "running" THEN l
    ELSE IF fail = "alloc" THEN Fail(l, "engine")
    ELSE [l EXCEPT !.buffers = "alive"]

\* the first engine or problem call after CVodeCreate
AfterCreate(l, fail) ==
    IF l.pc # "running" THEN l
    ELSE IF fail = "after_create" THEN Fail(l, "engine") ELSE l

\* Solver._set_tolerances
Solver_set_tolerances(l) ==
    IF l.pc # "running" THEN l
    ELSE IF l.abstol \in {"scalar", "vector"} /\ l.reltol \in {"scalar", "vector"}
    THEN l
    ELSE Fail(l, "Invalid tolerance.")

\* AdjointSolver._set_tolerances
AdjointSolver_set_tolerances(l) ==
    IF l.pc # "running" THEN l
    ELSE IF l.abstol \in {"scalar", "vector"} /\ l.reltol = "scalar"
    THEN l
    ELSE Fail(l, "Invalid tolerance.")

\* Solver._init_sens: the sens_mode argument becomes the engine's constant
ValidateSensMode(l) ==
    IF l.pc # "running" THEN l
    ELSE IF l.sens_mode \in {"simultaneous", "staggered"}
    THEN [l EXCEPT !.sens_mode_set = TRUE]
    ELSE IF l.sens_mode = "staggered1"
    THEN Fail(l, "staggered1 requires work.")
    ELSE Fail(l, "sens_mode must be one of \"simultaneous\" and \"staggered\".")

\* Solver._init_sens: lib.N_VCloneVectorArray and the zeroed sensitivity vectors
AllocateSens(l) ==
    IF l.pc # "running" THEN l ELSE [l EXCEPT !.sens_buffers = TRUE]

\* Solver._init_sens: lib.CVodeSensInit
CVodeSensInit(l) ==
    IF l.pc # "running" THEN l ELSE [l EXCEPT !.sens_init = TRUE]

Solver_init_sens_validating_last(l) ==
    IF l.pc # "running" \/ ~l.compute_sens THEN l
    ELSE ValidateSensMode(CVodeSensInit(AllocateSens(l)))

\* Solver._init_sens, called by Solver.__init__ only if compute_sens
Solver_init_sens(l) ==
    IF l.pc # "running" \/ ~l.compute_sens THEN l
    ELSE CVodeSensInit(AllocateSens(ValidateSensMode(l)))

\* Solver.__init__
Solver_init(abstol, reltol, sens, sens_mode, fail) ==
    LET l0 == [Unborn EXCEPT !.pc = "running", !.cls = "Solver", !.abstol = abstol,
                             !.reltol = reltol, !.compute_sens = sens,
                             !.sens_mode = sens_mode, !.kind = "BDF"]
        l1 == Solver_set_tolerances(AfterCreate(CVodeCreate(Allocate(l0, fail), fail), fail))
        l2 == Solver_init_sens(l1)
    IN  IF l2.pc = "running" THEN [l2 EXCEPT !.pc = "constructed"] ELSE l2

\* AdjointSolver._init_backward
AdjointSolver_init_backward(l) ==
    IF l.pc # "running" THEN l ELSE [l EXCEPT !.backward = TRUE]

\* AdjointSolver.__init__; kind is the interpolation argument
AdjointSolver_init(abstol, reltol, interpolation, fail) ==
    LET l0 == [Unborn EXCEPT !.pc = "running", !.cls = "AdjointSolver",
                             !.abstol = abstol, !.reltol = reltol,
                             !.kind = interpolation]
        l1 == AdjointSolver_set_tolerances(
                  AfterCreate(CVodeCreate(Allocate(l0, fail), fail), fail))
        l2 == IF l1.pc = "running" /\ interpolation \notin {"polynomial", "hermite"}
              THEN Fail(l1, "AssertionError") ELSE l1
        l3 == AdjointSolver_init_backward(l2)
    IN  IF l3.pc = "running" THEN [l3 EXCEPT !.pc = "constructed"] ELSE l3

\* BaseSolver.__init__; kind is the solver argument
BaseSolver_init(solver_kind, jac_kind, fail) ==
    LET l0 == [Unborn EXCEPT !.pc = "running", !.cls = "BaseSolver",
                             !.kind = solver_kind]
        l1 == Allocate(l0, fail)
        l2 == IF l1.pc = "running" /\ jac_kind \notin {"dense", "sparse"}
              THEN Fail(l1, "NameError") ELSE l1
        l3 == IF l2.pc = "running" /\ solver_kind \notin {"BDF", "ADAMS"}
              THEN Fail(l2, "Unknown solver") ELSE l2
        l4 == AfterCreate(CVodeCreate(l3, fail), fail)
    IN  IF l4.pc = "running"
        THEN [l4 EXCEPT !.pc = "constructed", !.finalizer = TRUE]
        ELSE l4

\* lib.CVodeFree(c_ptr)
CVodeFree(l) ==
    [l EXCEPT !.handle = "freed", !.frees = @ + 1, !.log = Append(@, "CVodeFree")]

\* the buffers the instance holds for the engine are given up
release_borrowed(l) ==
    IF l.buffers = "alive"
    THEN [l EXCEPT !.buffers = "released", !.log = Append(@, "release")]
    ELSE l

\* the function BaseSolver.__init__ registers with weakref.finalize; it is
\* registered only with a handle that check_ptr found non-NULL
finalize(l) == release_borrowed(IF l.handle = "none" THEN l ELSE CVodeFree(l))

\* the instance is garbage collected: a registered finalizer runs; without one
\* the attributes, the buffers among them, are dropped and nothing else happens
Collect(l) ==
    [(IF l.finalizer THEN finalize(l) ELSE release_borrowed(l)) EXCEPT !.pc = "destroyed"]

\* ------------------------------------------------ inputs
Y0s == {0, 1}
GradSeqs == {[k \in 1 .. Len(tvals) |-> 0], [k \in 1 .. Len(tvals) |-> Mod(k)]}
TwinJunk == Modulus - 1
Junk == {0, TwinJunk}

\* ------------------------------------------------ state
Real == [s |-> solver, b |-> bufs[Owner(frame.caller)], f |-> frame, o |-> outputs]

\* the machine that runs frame f
RealFor(f) ==
    [s |-> solver, b |-> bufs[Owner(f.caller)],
     f |-> [f EXCEPT !.pre = bufs[Owner(f.caller)]], o |-> outputs]

\* a freshly constructed instance with fresh buffers, about to run frame f with
\* the parameter values the instance under test holds
FreshFor(f) ==
    [s |-> Construct(cls, solver.user_data, TwinJunk, TwinJunk, TwinJunk),
     b |-> make_output_buffers(tvals),
     f |-> [f EXCEPT !.pre = make_output_buffers(tvals)], o |-> NoOutputs]

Commit(m, tw) ==
    /\ solver' = m.s
    /\ bufs' = [bufs EXCEPT ![Owner(m.f.caller)] = m.b]
    /\ frame' = m.f
    /\ outputs' = m.o
    /\ twin' = tw
    /\ calls' = IF frame.pc = "idle" THEN calls + 1 ELSE calls
    /\ UNCHANGED <<cls, compute_sens, t0, tvals, life>>

Init ==
    /\ cls \in {"Solver", "AdjointSolver"}
    /\ compute_sens \in (IF cls = "Solver" THEN BOOLEAN ELSE {FALSE})
    /\ t0 = 0
    /\ tvals \in {g \in Grids : t0 <= g[1]}
    /\ \E ud \in ParamSets : \E jB \in Junk, jQ \in Junk :
           solver = Construct(cls, ud, jB, jQ, jQ)
    /\ bufs = [o \in {"caller", "SolveODEAdjoint.perform",
                      "SolveODEAdjointBackward.perform"} |-> make_output_buffers(tvals)]
    /\ frame = IdleFrame
    /\ outputs = NoOutputs
    /\ twin = [s |-> solver, b |-> make_output_buffers(tvals), f |-> IdleFrame,
               o |-> NoOutputs]
    /\ calls = 0
    /\ life = IF cls = "Solver"
              THEN Solver_init("scalar", "scalar", compute_sens,
                               IF compute_sens THEN "simultaneous" ELSE "none", "none")
              ELSE AdjointSolver_init("scalar", "scalar", "polynomial", "none")

\* ------------------------------------------------ actions
\* a call of Solver.set_params / AdjointSolver.set_params
SetParams ==
    /\ frame.pc = "idle" /\ calls < MaxCalls
    /\ \E P \in ParamSets :
           /\ solver' = set_params(solver, P)
           /\ twin' = [twin EXCEPT !.s = set_params(twin.s, P)]
    /\ UNCHANGED <<cls, compute_sens, t0, tvals, bufs, frame, outputs, calls, life>>

\* a call of Solver.solve(t0, tvals, y0, y_out, sens0=, sens_out=)
CallSolve ==
    /\ frame.pc = "idle" /\ cls = "Solver" /\ calls < MaxCalls
    /\ \E y0 \in Y0s : \E sens0 \in (IF compute_sens THEN Vals \cup {None} ELSE {None}) :
           LET f == NewFrame("Solver.solve", y0, sens0, <<>>, 0)
               done(m) == IF Suspended(m) THEN m ELSE Finish(m)
           IN  Commit(done(Solver_solve(RealFor(f))), done(Solver_solve(FreshFor(f))))

\* lib.CVode returns in Solver.solve
SolveStep ==
    /\ frame.pc = "solve_step"
    /\ \E retval \in RetCodes :
           LET done(m) == IF Suspended(m) THEN m ELSE Finish(m)
           IN  Commit(done(Solver_step(Real, retval)), done(Solver_step(twin, retval)))

\* a call of AdjointSolver.solve_forward(t0, tvals, y0, y_out)
CallSolveForward ==
    /\ frame.pc = "idle" /\ cls = "AdjointSolver" /\ calls < MaxCalls
    /\ \E y0 \in Y0s :
           LET f == NewFrame("AdjointSolver.solve_forward", y0, None, <<>>, 0)
           IN  Commit(AfterForward(solve_forward(RealFor(f))),
                      AfterForward(solve_forward(FreshFor(f))))

\* lib.CVodeF returns in solve_forward
ForwardStep ==
    /\ frame.pc = "fwd_step"
    /\ \E retval \in RetCodes :
           Commit(AfterForward(solve_forward_step(Real, retval)),
                  AfterForward(solve_forward_step(twin, retval)))

\* a call of AdjointSolver.solve_backward(tvals[-1], t0, tvals, grads, grad_out,
\* lamda_out, lamda_all_out=, quad_all_out=, max_retries=), the per-time buffers
\* both None or both zero arrays with a row per output time: the twin is given
\* the engine's forward side as it is
CallSolveBackward ==
    /\ frame.pc = "idle" /\ cls = "AdjointSolver" /\ calls < MaxCalls
    /\ \E grads \in GradSeqs : \E max_retries \in 0 .. MaxRetries :
       \E all_out \in {<<>>, [k \in 1 .. Len(tvals) |-> 0]} :
           LET f == [NewFrame("AdjointSolver.solve_backward", 0, None, grads,
                              max_retries)
                         EXCEPT !.lamda_all_out = all_out, !.quad_all_out = all_out]
               tw == [FreshFor(f) EXCEPT !.s.ode = solver.ode,
                                         !.s.state_buffer = solver.state_buffer]
           IN  Commit(AfterBackward(solve_backward(RealFor(f))),
                      AfterBackward(solve_backward(tw)))

\* lib.CVodeB returns in solve_backward
BackwardStep ==
    /\ frame.pc = "bwd_step"
    /\ \E retval \in RetCodes :
           Commit(AfterBackward(solve_backward_step(Real, retval)),
                  AfterBackward(solve_backward_step(twin, retval)))

\* the params of perform written into the instance
perform_params(m, P) ==
    [m EXCEPT !.s = set_remaining_params(set_derivative_params(m.s, P[1]), P[2])]

\* SolveODEAdjoint.perform(node, (y0, params, params_fixed), outputs)
PerformAdjoint ==
    /\ frame.pc = "idle" /\ cls = "AdjointSolver" /\ calls < MaxCalls
    /\ \E y0 \in Y0s : \E P \in ParamSets :
           LET f == NewFrame("SolveODEAdjoint.perform", y0, None, <<>>, 0)
           IN  Commit(AfterForward(solve_forward(perform_params(RealFor(f), P))),
                      AfterForward(solve_forward(perform_params(FreshFor(f), P))))

\* SolveODEAdjointBackward.perform(node, (y0, params, params_fixed, grads), outputs);
\* solve_backward runs with its default max_retries
PerformAdjointBackward ==
    /\ frame.pc = "idle" /\ cls = "AdjointSolver" /\ calls < MaxCalls
    /\ \E y0 \in Y0s : \E P \in ParamSets : \E grads \in GradSeqs :
           LET f == NewFrame("SolveODEAdjointBackward.perform", y0, None, grads,
                             MaxRetries)
           IN  Commit(AfterForward(solve_forward(perform_params(RealFor(f), P))),
                      AfterForward(solve_forward(perform_params(FreshFor(f), P))))

Next ==
    \/ SetParams
    \/ CallSolve
    \/ SolveStep
    \/ CallSolveForward
    \/ ForwardStep
    \/ CallSolveBackward
    \/ BackwardStep
    \/ PerformAdjoint
    \/ PerformAdjointBackward

Spec == Init /\ [][Next]_vars

\* ------------------------------------------------ the life of an instance
\* the variables of the solves, which construction and destruction leave alone
solve_vars == <<cls, compute_sens, t0, tvals, solver, bufs, frame, outputs, twin, calls>>

InitLife ==
    /\ life = Unborn
    /\ cls = "Solver" /\ compute_sens = FALSE /\ t0 = 0 /\ tvals = <<0>>
    /\ solver = Construct("Solver", <<1, 0>>, 0, 0, 0)
    /\ bufs = [o \in {"caller", "SolveODEAdjoint.perform",
                      "SolveODEAdjointBackward.perform"} |-> make_output_buffers(tvals)]
    /\ frame = IdleFrame
    /\ outputs = NoOutputs
    /\ twin = [s |-> solver, b |-> make_output_buffers(tvals), f |-> IdleFrame,
               o |-> NoOutputs]
    /\ calls = 0

\* BaseSolver(problem, solver=, jac_kind=)
NewBaseSolver ==
    /\ life.pc = "unborn"
    /\ \E solver_kind \in {"BDF", "ADAMS", "other"} :
       \E jac_kind \in {"dense", "sparse", "other"} : \E fail \in Failures :
           life' = BaseSolver_init(solver_kind, jac_kind, fail)
    /\ UNCHANGED solve_vars

\* Solver(problem, compute_sens=, abstol=, reltol=, sens_mode=)
NewSolver ==
    /\ life.pc = "unborn"
    /\ \E abstol \in TolKinds : \E reltol \in TolKinds : \E sens \in BOOLEAN :
       \E sens_mode \in SensModes : \E fail \in Failures :
           life' = Solver_init(abstol, reltol, sens, sens_mode, fail)
    /\ UNCHANGED solve_vars

\* AdjointSolver(problem, abstol=, reltol=, interpolation=)
NewAdjointSolver ==
    /\ life.pc = "unborn"
    /\ \E abstol \in TolKinds : \E reltol \in TolKinds :
       \E interpolation \in {"polynomial", "hermite", "other"} : \E fail \in Failures :
           life' = AdjointSolver_init(abstol, reltol, interpolation, fail)
    /\ UNCHANGED solve_vars

\* the last reference to the instance goes away, after construction or after
\* the constructor raised
Destroy ==
    /\ life.pc \in {"constructed", "failed"}
    /\ life' = Collect(life)
    /\ UNCHANGED solve_vars

NextLife ==
    \/ NewBaseSolver
    \/ NewSolver
    \/ NewAdjointSolver
    \/ Destroy

SpecLife == InitLife /\ [][NextLife]_vars

\* The program is single-threaded and every engine call returns: whenever a
\* step of the program is possible, one is taken.
SpecFair == Spec /\ WF_vars(Next)

\* ================================================== properties
BadReturnCodeMsg == BadReturnCode(0).msg
SolveFailedMsg == SolveFailedBetween(0, 0, 0).msg
TooManyRetriesMsg == TooManyRetries(0, 0).msg

\* positions in the log of solve_backward holding an event of the given kind
Events(kind) == {a \in DOMAIN frame.blog : frame.blog[a][1] = kind}

\* Python's loop indices i of the injections made so far
Injected == {frame.blog[a][2] : a \in Events("inject")}

\* the state machine of one adjoint solve invocation
Phase ==
    IF frame.pc = "fwd_step" THEN "ForwardPass"
    ELSE IF frame.pc = "bwd_step" THEN "BackwardPass"
    ELSE IF frame.caller = "none" THEN "Idle"
    ELSE IF frame.err # NoErr THEN "Failed"
    ELSE "Done"

\* solve_backward was called in the current (or last) top-level call and returned
BackwardReturned ==
    /\ frame.pc = "idle"
    /\ \/ frame.caller = "AdjointSolver.solve_backward" /\ frame.ret = "returned"
       \/ frame.caller = "SolveODEAdjointBackward.perform" /\ frame.err = NoErr

\* C1: in SolveODEAdjointBackward.perform, when solve_forward fails the
\* invocation is Failed at once: no backward engine operation and no injection
\* was performed in it, the last engine request is the failed CVodeF.
C1_ForwardFailureSkipsBackward ==
    (frame.caller = "SolveODEAdjointBackward.perform"
        /\ frame.err.msg = BadReturnCodeMsg)
    => /\ Phase = "Failed"
       /\ frame.blog = <<>>
       /\ frame.req[1] = "CVodeF" /\ IsFatal(frame.req[4])

\* C1 witness: the forward pass of the backward op failed at its second step
C1_Witness ==
    /\ frame.caller = "SolveODEAdjointBackward.perform"
    /\ frame.err.msg = BadReturnCodeMsg
    /\ frame.req[2] = 2
    /\ frame.pc = "idle"

\* a forward pass from t0 to tvals[-1] has completed since the engine's last
\* forward reinitialization (which drops the checkpoints)
ForwardComplete ==
    /\ solver.ode.ck.has
    /\ solver.ode.ck.t0 = t0
    /\ solver.ode.ck.tend = UpperEnd
    /\ solver.ode.t = UpperEnd

\* C2: CVodeB is attempted only when a forward pass covering [t0, tend] has
\* completed since the most recent forward reinitialization.
C2_BackwardStepOnlyAfterForward ==
    Events("CVodeB") # {} => ForwardComplete

\* the running adjoint state just before log position a: what the last
\* read-back or injection before a left, zero when there is none
RunningBefore(a) ==
    LET prior == {b \in 1 .. (a - 1) : frame.blog[b][1] \in {"inject", "CVodeGetB"}}
    IN  IF prior = {} THEN 0
        ELSE LET b == CHOOSE c \in prior : \A d \in prior : d <= c
             IN  IF frame.blog[b][1] = "inject" THEN frame.blog[b][4] ELSE frame.blog[b][3]

\* C3: with len(grads) = len(tvals), the injection of iteration i is the one
\* for tvals[k], k = len(tvals) - i (1-based): it subtracts grads[k] from the
\* running adjoint state, happens once, directly after the read-back of the
\* step that reached tvals[k] (if there was one), after every step request
\* towards tvals[k] and before any reinitialization at or step below tvals[k];
\* when solve_backward returns every output time has had its injection.
C3_OneInjectionPerOutputTime ==
    LET L == frame.blog
        n == Len(tvals)
    IN  /\ \A a \in Events("inject") :
               LET k == n - L[a][2]
               IN  /\ k \in 1 .. n
                   /\ L[a][3] = frame.grads[k]
                   /\ L[a][4] = Mod(RunningBefore(a) - frame.grads[k])
                   /\ \A b \in Events("inject") : L[b][2] = L[a][2] => b = a
                   /\ \A b \in Events("CVodeB") :
                          /\ L[b][2] = tvals[k] => b < a
                          /\ L[b][2] < tvals[k] => a < b
                   /\ \A b \in Events("CVodeReInitB") : L[b][2] <= tvals[k] => a < b
        /\ \A b \in Events("CVodeGetB") :
               \A k \in 1 .. n :
                   L[b][2] = tvals[k]
                   => /\ b + 1 \in Events("inject")
                      /\ L[b + 1][2] = n - k
        /\ BackwardReturned => Injected = 0 .. (n - 1)

\* C3 witness: solve_backward returned after two stepped sub-intervals, each
\* followed by its injection
C3_Witness ==
    /\ BackwardReturned
    /\ Cardinality(Events("CVodeGetB")) >= 2
    /\ \E a \in Events("inject") : frame.blog[a][3] # 0 /\ a > 1

\* C4 as claimed: the first processed sub-interval (i = 0) gets no injection.
C4_FirstProcessedHasNoGradient ==
    \A a \in Events("inject") : frame.blog[a][2] # 0

\* C4 amended: the sub-interval without a gradient is the last one processed
\* (the one that ends at the lower end); the first one processed, degenerate at
\* tvals[-1], injects grads[-1] before anything else happens.
C4_LastProcessedHasNoGradient ==
    LET L == frame.blog
        n == Len(tvals)
    IN  /\ \A a \in Events("inject") : L[a][2] # n
        /\ L # <<>> => /\ L[1][1] = "inject"
                       /\ L[1][2] = 0
                       /\ L[1][3] = frame.grads[n]
        /\ (BackwardReturned /\ t0 < tvals[1])
           => L[Len(L)][1] = "CVodeGetB" /\ L[Len(L)][2] = t0

\* C4 witness: solve_backward returned and its last sub-interval was stepped
\* down to t0 with no injection after the read-back
C4_Witness ==
    /\ BackwardReturned
    /\ frame.blog # <<>>
    /\ frame.blog[Len(frame.blog)][1] = "CVodeGetB"
    /\ frame.blog[1][3] # 0

\* the step requests made after the reinitialization at log position r and
\* before the next reinitialization
AttemptsAfter(r) ==
    {b \in Events("CVodeB") :
        b > r /\ \A c \in Events("CVodeReInitB") : c > r => b < c}

\* C5: per non-degenerate sub-interval CVodeB is attempted at most max_retries
\* times; when max_retries attempts all returned the retryable code the call
\* raises "Too many solver retries between t_upper and t_lower", which is told
\* apart from the error of a fatal code by its message (a fatal-code error
\* follows a CVodeB that returned that code, a retry error never does), and
\* the call returns nothing: it raised, and a direct caller's grad_out and
\* lamda_out are as they were.
C5_RetryBudget ==
    LET L == frame.blog
        exhausted(r) ==
            /\ Cardinality(AttemptsAfter(r)) = frame.max_retries
            /\ \A b \in AttemptsAfter(r) : L[b][3] = TOO_MUCH_WORK
    IN  /\ \A r \in Events("CVodeReInitB") :
               /\ Cardinality(AttemptsAfter(r)) <= frame.max_retries
               /\ exhausted(r)
                  => /\ frame.err.cls = "SolverError"
                     /\ frame.err.msg = TooManyRetriesMsg
                     /\ frame.err.t_upper = L[r][2]
                     /\ frame.pc = "idle"
                     /\ ~BackwardReturned
                     /\ frame.caller = "AdjointSolver.solve_backward"
                        => /\ frame.ret = "raised"
                           /\ bufs["caller"].grad_out = frame.pre.grad_out
                           /\ bufs["caller"].lamda_out = frame.pre.lamda_out
        /\ frame.err.msg = TooManyRetriesMsg
           => /\ \E r \in Events("CVodeReInitB") :
                     exhausted(r) /\ \A c \in Events("CVodeReInitB") : c <= r
              /\ L[Len(L)][1] = "CVodeB" => L[Len(L)][3] = TOO_MUCH_WORK
        /\ frame.err.msg = SolveFailedMsg
           => /\ L[Len(L)][1] = "CVodeB"
              /\ L[Len(L)][3] = frame.err.code
              /\ frame.err.code \notin {CV_SUCCESS, TOO_MUCH_WORK}
        /\ TooManyRetriesMsg # SolveFailedMsg

\* C5 witness: a direct solve_backward used up a budget of two attempts in a
\* sub-interval after an earlier sub-interval had succeeded
C5_Witness ==
    /\ frame.caller = "AdjointSolver.solve_backward"
    /\ frame.err.msg = TooManyRetriesMsg
    /\ frame.max_retries >= 2
    /\ Events("CVodeGetB") # {}
    /\ frame.ret = "raised"

C7_FailuresPoisonOutputs ==
    /\ (frame.pc = "idle" /\ frame.caller = "SolveODEAdjoint.perform")
       => /\ frame.ret = "returned"
          /\ frame.err # NoErr
             => /\ DOMAIN outputs.y = 1 .. Len(tvals)
                /\ \A k \in 1 .. Len(tvals) :
                       /\ outputs.y[k] = NaN
                       /\ bufs["SolveODEAdjoint.perform"].y_out[k] = NaN
    /\ (frame.pc = "idle" /\ frame.caller = "SolveODEAdjointBackward.perform")
       => /\ frame.ret = "returned"
          /\ frame.err # NoErr
             => /\ outputs.lamda = NaN /\ outputs.grad = NaN
                /\ bufs["SolveODEAdjointBackward.perform"].lamda_out = NaN
                /\ bufs["SolveODEAdjointBackward.perform"].grad_out = NaN

\* C7 witness: the backward op failed in its backward pass, on a fatal code,
\* after a sub-interval that had succeeded
C7_Witness ==
    /\ frame.pc = "idle"
    /\ frame.caller = "SolveODEAdjointBackward.perform"
    /\ frame.err.msg = SolveFailedMsg
    /\ Events("CVodeGetB") # {}
    /\ outputs.grad = NaN

\* C8: what a solve hands to the engine and what it returns is what a freshly
\* constructed instance running the same call would hand over and return: at
\* every step request the engine's time, state, parameters (and sensitivities
\* or checkpoints where the call uses them) are the same, and a call that
\* returns leaves the same values in its result buffers and outputs, whatever
\* was solved on the instance before.
C8_ResultIndependentOfHistory ==
    /\ frame.pc \in {"solve_step", "fwd_step"}
       => /\ twin.f.pc = frame.pc /\ twin.f.i = frame.i
          /\ solver.ode.t = twin.s.ode.t
          /\ solver.ode.y = twin.s.ode.y
          /\ solver.user_data = twin.s.user_data
          /\ compute_sens => solver.ode.yS = twin.s.ode.yS
          /\ frame.pc = "fwd_step" => solver.ode.ck = twin.s.ode.ck
    /\ frame.pc = "bwd_step"
       => /\ twin.f.pc = frame.pc /\ twin.f.i = frame.i
          /\ solver.odeB = twin.s.odeB
          /\ solver.ode.ck = twin.s.ode.ck
          /\ solver.user_data = twin.s.user_data
    /\ frame.pc = "idle"
       => /\ twin.f.ret = frame.ret /\ twin.f.err = frame.err
          /\ (frame.ret = "returned" /\ frame.caller = "Solver.solve")
             => /\ bufs["caller"].y_out = twin.b.y_out
                /\ compute_sens => bufs["caller"].sens_out = twin.b.sens_out
          /\ (frame.ret = "returned" /\ frame.caller = "AdjointSolver.solve_forward")
             => bufs["caller"].y_out = twin.b.y_out
          /\ (frame.ret = "returned" /\ frame.caller = "AdjointSolver.solve_backward")
             => /\ bufs["caller"].grad_out = twin.b.grad_out
                /\ bufs["caller"].lamda_out = twin.b.lamda_out
          /\ frame.caller = "SolveODEAdjoint.perform"
             => outputs.y = twin.o.y
          /\ frame.caller = "SolveODEAdjointBackward.perform"
             => outputs.lamda = twin.o.lamda /\ outputs.grad = twin.o.grad

\* C8 witness: the backward op returned a result as the second call on an
\* instance whose first call, the forward op, had computed another trajectory
C8_Witness ==
    /\ calls = 2 /\ frame.pc = "idle"
    /\ frame.caller = "SolveODEAdjointBackward.perform"
    /\ frame.err = NoErr
    /\ bufs["SolveODEAdjoint.perform"].y_out
           # bufs["SolveODEAdjointBackward.perform"].y_out
    /\ outputs.grad \notin {0, NaN}

\* C9: in the forward loops of Solver.solve and solve_forward, when the step
\* request for tvals[i] returns the retryable code the same request is next
\* (same position, same i), no error is set and no buffer or output changes;
\* when it returns any other non-zero code the call ends at once with a
\* SolverError "Bad sundials return code" carrying that code (raised to a
\* direct caller with its buffers as they were), so no later time is stepped
\* to; row j of y_out changes only when the request for j = i returned
\* success (or when an op poisons its buffer after the error), and on success
\* row i holds the engine's state at tvals[i].
C9_ForwardLoopStepOutcome ==
    [][frame.pc \in {"solve_step", "fwd_step"}
       => LET r == frame'.req[4]
              k == frame.i
              own == Owner(frame.caller)
          IN  /\ frame'.req[1] = (IF frame.pc = "solve_step" THEN "CVode" ELSE "CVodeF")
              /\ frame'.req[2] = k /\ frame'.req[3] = tvals[k]
              /\ r = TOO_MUCH_WORK
                 => /\ frame'.pc = frame.pc /\ frame'.i = k
                    /\ frame'.err = NoErr /\ frame'.ret = frame.ret
                    /\ bufs' = bufs /\ outputs' = outputs
              /\ r \notin {CV_SUCCESS, TOO_MUCH_WORK}
                 => /\ frame'.pc = "idle"
                    /\ frame'.err.cls = "SolverError"
                    /\ frame'.err.msg = BadReturnCodeMsg
                    /\ frame'.err.code = r
                    /\ own = "caller" => frame'.ret = "raised" /\ bufs' = bufs
              /\ \A j \in 1 .. Len(tvals) :
                     bufs'[own].y_out[j] # bufs[own].y_out[j]
                     => \/ r = CV_SUCCESS /\ j = k
                        \/ /\ r \notin {CV_SUCCESS, TOO_MUCH_WORK}
                           /\ own = "SolveODEAdjoint.perform"
                           /\ bufs'[own].y_out[j] = NaN
              /\ r = CV_SUCCESS
                 => /\ bufs'[own].y_out[k] = solver'.ode.y
                    /\ solver'.ode.t = tvals[k]
                    /\ frame'.pc = frame.pc => frame'.i > k
      ]_vars

\* C9 witness: a forward step request has been reissued twice after the
\* retryable code and is outstanding again
C9_Witness ==
    /\ frame.pc \in {"solve_step", "fwd_step"}
    /\ frame.req[4] = TOO_MUCH_WORK
    /\ frame.req[2] = frame.i
    /\ frame.req[5] = 1

\* C10 as claimed: the forward loop of a call terminates, whatever the engine
\* returns.
C10_ForwardLoopTerminates ==
    (frame.pc \in {"solve_step", "fwd_step"})
        ~> (frame.pc \notin {"solve_step", "fwd_step"})

\* the top-level calls that run a forward solve
ForwardCallers ==
    {"Solver.solve", "AdjointSolver.solve_forward", "SolveODEAdjoint.perform",
     "SolveODEAdjointBackward.perform"}

\* C11: in a forward solve with tvals[0] = t0 no step request is ever issued
\* for output index 0 (the loop is never waiting on it and the last request
\* made is never for it), and from the first step request on, and when the
\* call returns, row 0 of y_out is y0 exactly (with sensitivities, row 0 of
\* sens_out is sens0).
C11_InitialTimeRowIsY0 ==
    (frame.caller \in ForwardCallers /\ tvals[1] = t0)
    => /\ frame.pc \in {"solve_step", "fwd_step"} => frame.i > 1
       /\ frame.req[1] \in {"CVode", "CVodeF"} => frame.req[2] > 1
       /\ (\/ frame.pc \in {"solve_step", "fwd_step", "bwd_step"}
           \/ frame.pc = "idle" /\ frame.err = NoErr
           \/ frame.pc = "idle" /\ frame.ret = "raised" /\ frame.err.cls = "SolverError")
          => /\ bufs[Owner(frame.caller)].y_out[1] = frame.y0
             /\ compute_sens => bufs["caller"].sens_out[1] = frame.sens0
       /\ (frame.pc = "idle" /\ frame.caller = "SolveODEAdjoint.perform"
           /\ frame.err = NoErr) => outputs.y[1] = frame.y0

\* C11 witness: a direct forward solve on a grid that starts at t0 returned
\* after stepping to a later output time, where the state is not y0 any more
C11_Witness ==
    /\ frame.pc = "idle" /\ frame.ret = "returned"
    /\ frame.caller \in {"Solver.solve", "AdjointSolver.solve_forward"}
    /\ tvals[1] = t0 /\ Len(tvals) >= 2
    /\ frame.y0 # 0
    /\ bufs["caller"].y_out[2] # frame.y0
    /\ frame.req[2] = Len(tvals)

\* the running quadrature before log position a: what the last read-back left
\* (an injection leaves it as it is), zero when nothing was read back yet
RunningQuadBefore(a) ==
    LET prior == {b \in 1 .. (a - 1) : frame.blog[b][1] = "CVodeGetB"}
    IN  IF prior = {} THEN 0
        ELSE frame.blog[CHOOSE c \in prior : \A d \in prior : d <= c][4]

\* a backward pass is running or has run in the current top-level call
InBackward ==
    \/ frame.caller = "AdjointSolver.solve_backward"
    \/ frame.caller = "SolveODEAdjointBackward.perform" /\ frame.blog # <<>>

\* C12: the running adjoint state and quadrature start from zero (whatever the
\* buffers held before) and are never zeroed again; every reinitialization is
\* at the upper end of its sub-interval and hands the engine the running adjoint
\* state and running quadrature of that moment; a read-back follows a
\* successful step at once, is taken at t_lower, and its values are the running
\* values the following injection and reinitialization start from; while a
\* step is outstanding the buffers hold the running values.
C12_RunningValuesThreadThroughEngine ==
    LET L == frame.blog
    IN  /\ \A r \in Events("CVodeReInitB") :
               /\ L[r][3] = RunningBefore(r)
               /\ L[r][4] = RunningQuadBefore(r)
               /\ \E j \in 1 .. Len(TIntervals(UpperEnd, LowerEnd)) :
                      /\ TIntervals(UpperEnd, LowerEnd)[j][2] = L[r][2]
                      /\ TIntervals(UpperEnd, LowerEnd)[j][1] < L[r][2]
        /\ \A g \in Events("CVodeGetB") :
               /\ g - 1 \in Events("CVodeB")
               /\ L[g - 1][3] = CV_SUCCESS
               /\ L[g][2] = L[g - 1][2]
        /\ \A b \in Events("CVodeB") :
               L[b][3] = CV_SUCCESS => b + 1 \in Events("CVodeGetB")
        /\ \A a \in Events("inject") :
               /\ L[a][4] = Mod(RunningBefore(a) - L[a][3])
               /\ L[a][5] = RunningQuadBefore(a)
        /\ (InBackward /\ frame.pc = "bwd_step")
           => /\ solver.state_bufferB = RunningBefore(Len(L) + 1)
              /\ solver.quad_buffer = RunningQuadBefore(Len(L) + 1)
              /\ solver.odeB.t = TIntervals(UpperEnd, LowerEnd)[frame.i][2]

\* C12 witness: a sub-interval was reinitialized with a non-zero adjoint state
\* and a non-zero quadrature that an earlier sub-interval had read back
C12_Witness ==
    \E r \in Events("CVodeReInitB") :
        /\ frame.blog[r][3] # 0
        /\ frame.blog[r][4] # 0
        /\ \E g \in Events("CVodeGetB") : g < r /\ frame.blog[g][4] = frame.blog[r][4]

\* C13 as claimed: every backward sub-interval starts from a zero quadrature.
C13_QuadratureZeroAtEachSubInterval ==
    \A r \in Events("CVodeReInitB") : frame.blog[r][4] = 0

\* C13 amended: the quadrature is zero at the start of the first stepped
\* sub-interval only; every later one starts from the quadrature the previous
\* stepped sub-interval read back, so the value is carried forward and
\* accumulates over the sub-intervals.
C13_QuadratureCarriedForward ==
    LET L == frame.blog
        earlier(r) == {g \in Events("CVodeGetB") : g < r}
    IN  \A r \in Events("CVodeReInitB") :
            IF earlier(r) = {}
            THEN L[r][4] = 0
            ELSE \E g \in earlier(r) :
                     /\ \A h \in earlier(r) : h <= g
                     /\ L[r][4] = L[g][4]
                     /\ L[r][2] = L[g][2]

\* C13 witness: the first stepped sub-interval started from zero and a later
\* one from a non-zero quadrature
C13_Witness ==
    \E r1 \in Events("CVodeReInitB") : \E r2 \in Events("CVodeReInitB") :
        /\ r1 < r2
        /\ frame.blog[r1][4] = 0
        /\ frame.blog[r2][4] # 0

\* C14: when solve_backward returns, grad_out is the running quadrature and
\* lamda_out the running adjoint state as the last read-back and the last
\* injection left them (in the op's buffers and in the arrays it hands out as
\* well); when no sub-interval was stepped, grad_out is zero and lamda_out is
\* what the injections alone made of zero.
C14_ResultsAreFinalRunningValues ==
    BackwardReturned
    => LET L == frame.blog
           b == bufs[Owner(frame.caller)]
       IN  /\ b.grad_out = RunningQuadBefore(Len(L) + 1)
           /\ b.lamda_out = RunningBefore(Len(L) + 1)
           /\ b.grad_out = solver.quad_buffer
           /\ Events("CVodeReInitB") = {} => b.grad_out = 0
           /\ frame.caller = "SolveODEAdjointBackward.perform"
              => outputs.grad = b.grad_out /\ outputs.lamda = b.lamda_out

\* C14 witness: solve_backward returned a non-zero gradient and a non-zero
\* adjoint state after a stepped sub-interval followed by an injection
C14_Witness ==
    /\ BackwardReturned
    /\ bufs[Owner(frame.caller)].grad_out # 0
    /\ bufs[Owner(frame.caller)].lamda_out # 0
    /\ \E g \in Events("CVodeGetB") : g + 1 \in Events("inject")

\* C15: when every entry of grads is zero, a solve_backward that returns
\* leaves grad_out = 0 and lamda_out = 0 (in the op's buffers and outputs as
\* well), on every grid, after any number of retried steps and whatever the
\* buffers held before; the adjoint state and the quadrature stay zero all
\* the way through.
C15_ZeroGradsGiveZeroResult ==
    (InBackward /\ \A k \in DOMAIN frame.grads : frame.grads[k] = 0)
    => /\ \A a \in DOMAIN frame.blog :
              frame.blog[a][1] \in {"CVodeReInitB", "CVodeGetB"}
              => frame.blog[a][3] = 0 /\ frame.blog[a][4] = 0
       /\ BackwardReturned
          => /\ bufs[Owner(frame.caller)].grad_out = 0
             /\ bufs[Owner(frame.caller)].lamda_out = 0
             /\ frame.caller = "SolveODEAdjointBackward.perform"
                => outputs.grad = 0 /\ outputs.lamda = 0

\* C15 witness: a backward pass with zero grads returned after two stepped
\* sub-intervals, one of them retried, over a forward trajectory that started
\* from a non-zero state
C15_Witness ==
    /\ BackwardReturned
    /\ frame.grads # <<>>
    /\ \A k \in DOMAIN frame.grads : frame.grads[k] = 0
    /\ Cardinality(Events("CVodeGetB")) >= 2
    /\ \E b \in Events("CVodeB") : frame.blog[b][3] = TOO_MUCH_WORK
    /\ solver.ode.ck.has /\ solver.ode.ck.y0 # 0

\* the upper ends of the sub-intervals that have t_lower < t_upper
SteppedUpperEnds ==
    {TIntervals(UpperEnd, LowerEnd)[j][2] :
        j \in {a \in 1 .. Len(TIntervals(UpperEnd, LowerEnd)) :
                  TIntervals(UpperEnd, LowerEnd)[a][1]
                      < TIntervals(UpperEnd, LowerEnd)[a][2]}}

\* C16: a sub-interval with t_lower = t_upper gets no engine operation: every
\* reinitialization is at the upper end of a sub-interval with t_lower <
\* t_upper, once, and every step and read-back targets a time strictly below
\* it; the degenerate first sub-interval (at tvals[-1]) still applies its
\* injection, to the zeroed adjoint state and with the quadrature untouched,
\* before any engine operation; and when tvals[0] = t0 the injection for
\* tvals[0] is the last thing a returning backward pass does.
C16_DegenerateSubIntervalSkipsEngine ==
    LET L == frame.blog
        n == Len(tvals)
    IN  InBackward
        => /\ \A r \in Events("CVodeReInitB") :
                  /\ L[r][2] \in SteppedUpperEnds
                  /\ \A q \in Events("CVodeReInitB") : L[q][2] = L[r][2] => q = r
                  /\ \A b \in AttemptsAfter(r) : L[b][2] < L[r][2]
           /\ \A g \in Events("CVodeGetB") : L[g][2] < UpperEnd
           /\ L # <<>>
              => /\ L[1] = <<"inject", 0, frame.grads[n], Mod(0 - frame.grads[n]), 0>>
           /\ BackwardReturned
              => /\ {L[r][2] : r \in Events("CVodeReInitB")} = SteppedUpperEnds
                 /\ tvals[1] = t0
                    => L[Len(L)] = <<"inject", n - 1, frame.grads[1],
                                     Mod(RunningBefore(Len(L)) - frame.grads[1]),
                                     RunningQuadBefore(Len(L))>>

\* C16 witness: a backward pass returned on a grid that starts at t0 and has a
\* later time: its first and its last sub-interval are degenerate, both
\* injections were applied with non-zero gradients, one sub-interval was stepped
C16_Witness ==
    /\ BackwardReturned
    /\ tvals[1] = t0 /\ Len(tvals) >= 2
    /\ \A k \in DOMAIN frame.grads : frame.grads[k] # 0
    /\ Cardinality(Events("CVodeReInitB")) = Len(tvals) - 1
    /\ frame.blog[Len(frame.blog)][1] = "inject"

\* the log position of the injection made for output time tvals[k]
InjectionAt(k) ==
    CHOOSE a \in Events("inject") : frame.blog[a][2] = Len(tvals) - k

\* C17: when lamda_all_out and quad_all_out are supplied and solve_backward
\* returns, row k of them holds the adjoint state and the quadrature right
\* after the injection for tvals[k], for every k.
C17_SnapshotRowsFollowOutputTimes ==
    (BackwardReturned /\ frame.lamda_all_out # <<>>)
    => \A k \in 1 .. Len(tvals) :
           /\ frame.lamda_all_out[k] = frame.blog[InjectionAt(k)][4]
           /\ frame.quad_all_out[k] = frame.blog[InjectionAt(k)][5]

\* C18: after the backward op has performed, the first entry of what
\* SolveODEAdjoint.grad returns is the negation of lamda_out as solve_backward
\* produced it (it cancels it; NaN stays NaN) and the second entry is grad_out
\* itself.
C18_GradNegatesLamdaOnly ==
    (frame.pc = "idle" /\ frame.caller = "SolveODEAdjointBackward.perform")
    => LET b == bufs["SolveODEAdjointBackward.perform"]
       IN  /\ IF b.lamda_out = NaN
              THEN SolveODEAdjoint_grad[1] = NaN
              ELSE /\ SolveODEAdjoint_grad[1] \in Vals
                   /\ Mod(SolveODEAdjoint_grad[1] + b.lamda_out) = 0
           /\ SolveODEAdjoint_grad[2] = b.grad_out
           /\ frame.err = NoErr
              => /\ b.lamda_out = RunningBefore(Len(frame.blog) + 1)
                 /\ b.grad_out = RunningQuadBefore(Len(frame.blog) + 1)

\* C18 witness: the backward op returned a non-zero adjoint state, whose
\* negation differs from it, and a non-zero parameter gradient
C18_Witness ==
    /\ frame.pc = "idle" /\ frame.caller = "SolveODEAdjointBackward.perform"
    /\ frame.err = NoErr
    /\ outputs.lamda \in Vals \ {0}
    /\ outputs.grad \in Vals \ {0}
    /\ SolveODEAdjoint_grad[1] # outputs.lamda

\* C19: the engine handle an instance created is released exactly once when
\* the instance is destroyed, also after a constructor that raised, and the
\* buffers handed to the engine are released only after it.
C19_HandleReleasedOnceBeforeBuffers ==
    /\ life.frees <= 1
    /\ (life.pc = "destroyed" /\ life.handle # "none")
       => /\ life.handle = "freed" /\ life.frees = 1
          /\ \A a \in DOMAIN life.log :
                 life.log[a] = "release"
                 => \E b \in 1 .. (a - 1) : life.log[b] = "CVodeFree"

\* C20: a Solver or an AdjointSolver given a scalar or vector absolute
\* tolerance and a scalar or vector relative tolerance never fails with the
\* configuration error of the tolerances.
C20_AllToleranceCombinationsAccepted ==
    (/\ life.cls \in {"Solver", "AdjointSolver"}
     /\ life.abstol \in {"scalar", "vector"}
     /\ life.reltol \in {"scalar", "vector"})
    => life.err # "Invalid tolerance."

\* C21: a Solver that computes sensitivities and is given the coupling mode
\* 'staggered1' is never constructed: unless an earlier step of the
\* constructor failed, it fails with the error of that mode, and no
\* sensitivity buffer is allocated and the engine's sensitivity module is not
\* initialized; a constructed one has the mode 'simultaneous' or 'staggered'.
C21_Staggered1FailsBeforeSensSetup ==
    /\ (life.cls = "Solver" /\ life.compute_sens /\ life.sens_mode = "staggered1")
       => /\ life.pc \in {"failed", "destroyed"}
          /\ life.err \in {"engine", "Invalid tolerance.", "staggered1 requires work."}
          /\ (life.abstol \in {"scalar", "vector"} /\ life.reltol \in {"scalar", "vector"}
              /\ life.err # "engine")
             => life.err = "staggered1 requires work."
          /\ ~life.sens_buffers /\ ~life.sens_init /\ ~life.sens_mode_set
    /\ (life.cls = "Solver" /\ life.compute_sens /\ life.err = "none")
       => life.sens_mode \in {"simultaneous", "staggered"}

\* a construction that got as far as the coupling mode and failed on 'staggered1'
C21_Witness ==
    /\ life.cls = "Solver" /\ life.compute_sens /\ life.sens_mode = "staggered1"
    /\ life.pc = "failed" /\ life.handle = "live"
    /\ life.err = "staggered1 requires work."

\* C22: whenever a backward step is requested or has been made inside
\* SolveODEAdjointBackward.perform, the checkpoints the engine holds were
\* stored by the forward pass of this very call, from the y0 and (while the
\* call runs) the parameter values of this call, over [t0, tvals[-1]].
C22_BackwardUsesCheckpointsOfSamePerform ==
    (/\ frame.caller = "SolveODEAdjointBackward.perform"
     /\ \/ frame.pc = "bwd_step"
        \/ Events("CVodeB") # {})
    => /\ solver.ode.ck.has
       /\ solver.ode.ck.made = calls
       /\ solver.ode.ck.y0 = frame.y0
       /\ frame.pc = "bwd_step" => solver.ode.ck.p = solver.user_data
       /\ solver.ode.ck.t0 = t0 /\ solver.ode.ck.tend = UpperEnd

\* the second call on the instance is a backward perform that has stepped
\* backward and is about to step again
C22_Witness ==
    /\ frame.caller = "SolveODEAdjointBackward.perform"
    /\ frame.pc = "bwd_step"
    /\ Events("CVodeB") # {}
    /\ calls = MaxCalls
    /\ solver.ode.ck.made = MaxCalls

\* C23: called with the upper end tvals[-1] and the lower end t0, solve_backward
\* goes through len(tvals) + 1 sub-intervals (t_lower, t_upper) with
\* t_lower <= t_upper; the first is (tvals[-1], tvals[-1]); each later one ends
\* above where the one before it ends below; the last one ends below at t0 and
\* is the only one without a gradient to inject; a step request is only ever
\* made for one of them that is not degenerate.
C23_SubIntervalsChainFromEndToStart ==
    LET TI == TIntervals(UpperEnd, LowerEnd)
        n == Len(tvals)
    IN  /\ Len(TI) = n + 1
        /\ \A grads \in GradSeqs :
               /\ NumIntervals(UpperEnd, LowerEnd, grads) = n + 1
               /\ \A j \in 1 .. (n + 1) :
                      (GradsReversed(grads)[j] = None) <=> (j = n + 1)
        /\ \A j \in 1 .. (n + 1) : TI[j][1] <= TI[j][2]
        /\ TI[1] = <<tvals[n], tvals[n]>>
        /\ \A j \in 2 .. (n + 1) : TI[j][2] = TI[j - 1][1]
        /\ \A j \in 1 .. n : TI[j][1] = tvals[n + 1 - j]
        /\ TI[n + 1][1] = t0
        /\ frame.pc = "bwd_step"
           => /\ frame.i \in 2 .. (n + 1)
              /\ TI[frame.i][1] < TI[frame.i][2]

\* a backward perform over two output times above t0 that stepped through
\* both non-degenerate sub-intervals and returned
C23_Witness ==
    /\ Len(tvals) = 2 /\ t0 < tvals[1]
    /\ frame.caller = "SolveODEAdjointBackward.perform"
    /\ frame.ret = "returned"
    /\ Cardinality(Events("CVodeReInitB")) = 2

\* the log position of the latest reinitialization
LastReInitB ==
    CHOOSE r \in Events("CVodeReInitB") : \A c \in Events("CVodeReInitB") : c <= r

\* what C24 says of every state: per reinitialized sub-interval at most
\* max_retries step requests, in the whole call at most
\* (len(tvals) + 1) * max_retries, and the retry counter of a pending request
\* counts the requests of its own sub-interval only
RetriesBounded ==
    /\ \A r \in Events("CVodeReInitB") :
           Cardinality(AttemptsAfter(r)) <= frame.max_retries
    /\ Cardinality(Events("CVodeB")) <= (Len(tvals) + 1) * frame.max_retries
    /\ frame.pc = "bwd_step"
       => /\ frame.retry = Cardinality(AttemptsAfter(LastReInitB))
          /\ frame.retry < frame.max_retries

\* what is left to do at most while a backward step is pending: the requests
\* left in this sub-interval and max_retries for each sub-interval after it
BackwardRank ==
    (Len(tvals) + 1 - frame.i) * frame.max_retries + (frame.max_retries - frame.retry)

\* C24: solve_backward terminates whatever the engine returns: its retry
\* counter starts afresh in each sub-interval, a sub-interval gets at most
\* max_retries backward step requests and a call at most
\* (len(tvals) + 1) * max_retries, and every return of a backward step either
\* ends the call or leaves strictly less to do, of which there is never less
\* than nothing.
C24_BackwardTerminatesWithinBudget ==
    /\ [](RetriesBounded /\ (frame.pc = "bwd_step" => BackwardRank > 0))
    /\ [][frame.pc = "bwd_step"
          => \/ frame'.pc = "idle"
             \/ /\ frame'.pc = "bwd_step"
                /\ BackwardRank' < BackwardRank
                /\ frame'.i >= frame.i]_vars

\* a second sub-interval is being retried after the first one needed a retry
C24_Witness ==
    /\ frame.pc = "bwd_step"
    /\ frame.retry = 1
    /\ Cardinality(Events("CVodeReInitB")) = 2
    /\ Cardinality(Events("CVodeB")) = 3
    /\ frame.max_retries = 2

\* C25: while solve_backward runs its caller's grad_out and lamda_out are as
\* they were when it was called, and they still are when it has raised, for
\* either error and in whichever sub-interval.
C25_RaiseLeavesResultsUntouched ==
    /\ frame.pc = "bwd_step"
       => /\ bufs[Owner(frame.caller)].grad_out = frame.pre.grad_out
          /\ bufs[Owner(frame.caller)].lamda_out = frame.pre.lamda_out
    /\ (frame.caller = "AdjointSolver.solve_backward" /\ frame.ret = "raised")
       => /\ frame.err.msg \in {TooManyRetriesMsg, SolveFailedMsg}
          /\ bufs["caller"].grad_out = frame.pre.grad_out
          /\ bufs["caller"].lamda_out = frame.pre.lamda_out

\* a direct solve_backward raised in a later sub-interval, after a read-back
\* had moved the running adjoint state away from what the caller's lamda_out,
\* filled by an earlier call, still holds
C25_Witness ==
    /\ frame.caller = "AdjointSolver.solve_backward"
    /\ frame.ret = "raised"
    /\ Events("CVodeGetB") # {}
    /\ frame.pre.lamda_out # 0
    /\ solver.state_bufferB # frame.pre.lamda_out

\* what an array that was handed out holds now
Contents(a) == IF a.own THEN a.val ELSE bufs[a.owner][a.field]

\* C26: every array a perform of SolveODEAdjoint or SolveODEAdjointBackward
\* has handed out still holds what it held when it was handed out, whatever
\* was called on the solver and its ops since.
C26_ReturnedArraysKeepTheirValues ==
    /\ \A k \in DOMAIN outputs.returned.y :
           /\ Contents(outputs.returned.y[k]) = outputs.returned.y[k].val
           /\ k = Len(outputs.returned.y) => outputs.returned.y[k].val = outputs.y
    /\ \A k \in DOMAIN outputs.returned.lamda :
           /\ Contents(outputs.returned.lamda[k]) = outputs.returned.lamda[k].val
           /\ Contents(outputs.returned.grad[k]) = outputs.returned.grad[k].val
           /\ k = Len(outputs.returned.lamda)
              => /\ outputs.returned.lamda[k].val = outputs.lamda
                 /\ outputs.returned.grad[k].val = outputs.grad

\* an op handed out numbers and a later failing perform of the same op has
\* filled the op's buffers with NaN
C26_Witness ==
    \/ /\ Len(outputs.returned.y) = 2
       /\ \E k \in DOMAIN tvals : outputs.returned.y[1].val[k] # NaN
       /\ \A k \in DOMAIN tvals :
              bufs["SolveODEAdjoint.perform"].y_out[k] = NaN
    \/ /\ Len(outputs.returned.lamda) = 2
       /\ outputs.returned.lamda[1].val \notin {0, NaN}
       /\ outputs.returned.grad[1].val \notin {0, NaN}
       /\ bufs["SolveODEAdjointBackward.perform"].lamda_out = NaN
       /\ bufs["SolveODEAdjointBackward.perform"].grad_out = NaN

====
